---------------------------- MODULE Spec2Model ----------------------------
(***************************************************************************)
(* A model of RicohAddressBook.py: the two static helpers pad_userid and   *)
(* get_tag_label, and the two address book operations write_user and       *)
(* remove_user that drive the printer's web page through them.             *)
(*                                                                         *)
(* The file is Python 2 (line 154 names the type `long`, which does not    *)
(* exist in Python 3: there every call of pad_userid, and so of write_user *)
(* and remove_user, ends in NameError).  The model therefore follows       *)
(* Python 2:                                                               *)
(*   - a literal without the u prefix ('AB', "%05d", 'ÆÅÄ') is a str, a    *)
(*     sequence of BYTES; under the file's coding line (utf-8, line 2) a   *)
(*     non-ASCII character of a literal is two bytes;                      *)
(*   - a name is a str (bytes, as in the calls of lines 237-238) or a      *)
(*     unicode (code points, as the docstring of write_user says);         *)
(*   - name[0] is the first byte of a str, the first code point of a       *)
(*     unicode;                                                            *)
(*   - `x in s` on two str is a substring test on bytes; with one unicode  *)
(*     operand the str operand is first decoded with the default encoding, *)
(*     ascii, and a byte above 127 in it raises UnicodeDecodeError;        *)
(*   - assert statements are executed (the interpreter's default mode).    *)
(* A Python string is modelled as [kind, units]: units are bytes (0..255)  *)
(* for kind "str" and code points for kind "unicode".                      *)
(***************************************************************************)
EXTENDS Integers, Sequences, FiniteSets, TLC

VARIABLES
    op,        \* the method called last: "none" before the first call
    arg,       \* its arguments: [userid, name, email]
    ret,       \* its outcome: [outcome, value, exc]
    book,      \* the page's address book: the elements named "entryindex"
    calls      \* the browser interactions of the last call, in order

vars == <<op, arg, ret, book, calls>>

---------------------------------------------------------------------------
(* Python values *)

PyStr(bytes) == [kind |-> "str", units |-> bytes]

PyUnicode(cps) == [kind |-> "unicode", units |-> cps]

PyNone == [kind |-> "None", units |-> <<>>]

PyInt(type, val) == [type |-> type, val |-> val]

NoInt == [type |-> "absent", val |-> 0]

Return(v) == [outcome |-> "return", value |-> v, exc |-> "none"]

Raise(e) == [outcome |-> "raise", value |-> PyNone, exc |-> e]

NotCalled == [outcome |-> "pending", value |-> PyNone, exc |-> "none"]

---------------------------------------------------------------------------
(* Bounds of the model *)

\* ids are drawn from -Margin .. MaxUserid + Margin
Margin == 3

\* names have at most MaxNameLen characters
MaxNameLen == 2

---------------------------------------------------------------------------
(* pad_userid, lines 150-155 *)

\* the upper limit of the assertion of line 154
MaxUserid == 50000

\* the field width of the format "%05d" of line 155
PadWidth == 5

RECURSIVE DecimalDigits(_)
\* the decimal digits of n >= 0, as ASCII bytes, most significant first
DecimalDigits(n) ==
    IF n < 10 THEN <<48 + n>>
    ELSE DecimalDigits(n \div 10) \o <<48 + (n % 10)>>

RECURSIVE ZeroFill(_, _)
\* zeros in front of the digits until sign and digits fill the width
ZeroFill(digits, width) ==
    IF Len(digits) >= width THEN digits
    ELSE ZeroFill(<<48>> \o digits, width)

\* a faulty variant of the format: "%04d"
FormatDWidth4(n) == PyStr(ZeroFill(DecimalDigits(n), PadWidth - 1))

\* "%05d" % n: flag 0, width 5, conversion d.  The sign counts in the
\* width and the zeros go between the sign and the digits.
FormatD(n) ==
    IF n < 0
    THEN PyStr(<<45>> \o ZeroFill(DecimalDigits(0 - n), PadWidth - 1))
    ELSE PyStr(ZeroFill(DecimalDigits(n), PadWidth))

\* a faulty variant of the assertion: both limits off by one
UseridAcceptedOffByOne(userid) ==
    /\ userid.type \in {"int", "long"}
    /\ 0 <= userid.val
    /\ userid.val <= MaxUserid + 1

\* the assertion of line 154
UseridAccepted(userid) ==
    /\ userid.type \in {"int", "long"}
    /\ 0 < userid.val
    /\ userid.val <= MaxUserid

\* a faulty variant of pad_userid: the assertion is not made
pad_userid_unchecked(userid) == Return(FormatD(userid.val))

pad_userid(userid) ==
    IF ~UseridAccepted(userid) THEN Raise("AssertionError")
    ELSE Return(FormatD(userid.val))

---------------------------------------------------------------------------
(* get_tag_label, lines 125-148 *)

\* the literal of line 130, 'ÆÅÄ', as the bytes the file holds
LiteralAE == PyStr(<<195, 134, 195, 133, 195, 132>>)

\* the literal of line 132: Ø, Ö and U+0344, as the bytes the file holds
LiteralOE == PyStr(<<195, 152, 195, 150, 205, 132>>)

\* the tuple of lines 134-145
Tags ==
    << PyStr(<<65, 66>>),      \* 'AB'
       PyStr(<<67, 68>>),      \* 'CD'
       PyStr(<<69, 70>>),      \* 'EF'
       PyStr(<<71, 72>>),      \* 'GH'
       PyStr(<<73, 74, 75>>),  \* 'IJK'
       PyStr(<<76, 77, 78>>),  \* 'LMN'
       PyStr(<<79, 80, 81>>),  \* 'OPQ'
       PyStr(<<82, 83, 84>>),  \* 'RST'
       PyStr(<<85, 86, 87>>),  \* 'UVW'
       PyStr(<<88, 89, 90>>) >>  \* 'XYZ'

\* str.upper() of one byte: without a setlocale call the C locale is in
\* force and only a..z change
StrUpper(b) == IF b >= 97 /\ b <= 122 THEN b - 32 ELSE b

\* unicode.upper() of one code point, for the code points up to U+00FF:
\* a..z, the lower case letters of Latin-1 (U+00E0..U+00FE without the
\* division sign U+00F7), and ÿ, whose upper case is U+0178
UnicodeUpper(c) ==
    IF c >= 97 /\ c <= 122 THEN c - 32
    ELSE IF c >= 224 /\ c <= 254 /\ c # 247 THEN c - 32
    ELSE IF c = 255 THEN 376
    ELSE c

\* name[0].upper(), line 129; name is not empty
FirstUpper(name) ==
    IF name.kind = "str" THEN PyStr(<<StrUpper(name.units[1])>>)
    ELSE PyUnicode(<<UnicodeUpper(name.units[1])>>)

IsSubstring(x, s) ==
    \E i \in 1..(Len(s) - Len(x) + 1) : SubSeq(s, i, i + Len(x) - 1) = x

IsAscii(units) == \A i \in 1..Len(units) : units[i] < 128

\* x in s, for s a str: "True", "False" or, when x is a unicode and s
\* does not decode as ascii, "UnicodeDecodeError"
PyIn(x, s) ==
    IF x.kind = "unicode" /\ ~IsAscii(s.units) THEN "UnicodeDecodeError"
    ELSE IF IsSubstring(x.units, s.units) THEN "True"
    ELSE "False"

RECURSIVE ScanTags(_, _)
\* the loop of lines 134-148, from the i-th tag on
ScanTags(char, i) ==
    IF i > Len(Tags) THEN Return(PyNone)
    ELSE IF PyIn(char, Tags[i]) = "UnicodeDecodeError"
         THEN Raise("UnicodeDecodeError")
    ELSE IF PyIn(char, Tags[i]) = "True" THEN Return(Tags[i])
    ELSE ScanTags(char, i + 1)

get_tag_label(name) ==
    IF Len(name.units) = 0 THEN Raise("IndexError")
    ELSE
    LET char0 == FirstUpper(name)
        inAE == PyIn(char0, LiteralAE)
        char1 == IF inAE = "True" THEN PyStr(<<65>>) ELSE char0
        inOE == PyIn(char1, LiteralOE)
        char2 == IF inOE = "True" THEN PyStr(<<79>>) ELSE char1
    IN  IF inAE = "UnicodeDecodeError" THEN Raise("UnicodeDecodeError")
        ELSE IF inOE = "UnicodeDecodeError" THEN Raise("UnicodeDecodeError")
        ELSE ScanTags(char2, 1)

---------------------------------------------------------------------------
(* The inputs *)

\* the encoding of one code point below U+0800 in UTF-8, the coding of the
\* file (line 2): how a caller's str holds a character
Utf8Encode(c) ==
    IF c < 128 THEN <<c>>
    ELSE <<192 + (c \div 64), 128 + (c % 64)>>

RECURSIVE Utf8EncodeAll(_)
Utf8EncodeAll(cps) ==
    IF Len(cps) = 0 THEN <<>>
    ELSE Utf8Encode(Head(cps)) \o Utf8EncodeAll(Tail(cps))

UpperLetters == 65..90

LowerLetters == 97..122

\* Æ Å Ä and æ å ä
VariantsOfA == {198, 197, 196, 230, 229, 228}

\* Ø Ö and ø ö
VariantsOfO == {216, 214, 248, 246}

\* the first characters of the names: the letters, the digit 1, a space,
\* the variants of A and O, É and é, ÿ and Ÿ, and U+0344
FirstChars ==
    UpperLetters \cup LowerLetters \cup {49, 32} \cup VariantsOfA
        \cup VariantsOfO \cup {201, 233, 255, 376, 836}

\* the characters after the first: o and ø
RestChars == {111, 248}

RECURSIVE TextsOfLen(_)
\* the texts of n >= 1 characters
TextsOfLen(n) ==
    IF n = 1 THEN {<<c>> : c \in FirstChars}
    ELSE {Append(t, c) : t \in TextsOfLen(n - 1), c \in RestChars}

Texts == {<<>>} \cup UNION {TextsOfLen(n) : n \in 1..MaxNameLen}

\* a text as the caller passes it: a unicode, or a str in UTF-8
Names ==
    {PyUnicode(t) : t \in Texts} \cup {PyStr(Utf8EncodeAll(t)) : t \in Texts}

Userids ==
    {PyInt(type, val) : type \in {"int", "long", "float"},
                        val \in (0 - Margin)..(MaxUserid + Margin)}

NoArg == [userid |-> NoInt, name |-> PyNone, email |-> PyNone]

---------------------------------------------------------------------------
(* The static methods called on their own *)

InitPage ==
    /\ book = <<>>
    /\ calls = <<>>

InitPad ==
    /\ op = "none"
    /\ arg \in {[NoArg EXCEPT !.userid = u] : u \in Userids}
    /\ ret = NotCalled
    /\ InitPage

CallPadUserid ==
    /\ op = "none"
    /\ op' = "pad_userid"
    /\ ret' = pad_userid(arg.userid)
    /\ UNCHANGED <<arg, book, calls>>

SpecPad == InitPad /\ [][CallPadUserid]_vars

InitTag ==
    /\ op = "none"
    /\ arg \in {[NoArg EXCEPT !.name = n] : n \in Names}
    /\ ret = NotCalled
    /\ InitPage

CallGetTagLabel ==
    /\ op = "none"
    /\ op' = "get_tag_label"
    /\ ret' = get_tag_label(arg.name)
    /\ UNCHANGED <<arg, book, calls>>

SpecTag == InitTag /\ [][CallGetTagLabel]_vars

---------------------------------------------------------------------------
(* The address book page and the two operations on it *)

\* one interaction with the browser: what is done, on which element, and
\* the text or the keys it is done with
Step(do, on, with) == [do |-> do, on |-> on, with |-> with]

\* an element named "entryindex" and the entry behind it
Entry(value, name, email, tag) ==
    [value |-> value, name |-> name, email |-> email, tag |-> tag]

\* a == b on two Python strings: a str and a unicode are equal when the
\* str decodes as ascii to the same characters
PyEq(a, b) ==
    IF a.kind = b.kind THEN a.units = b.units
    ELSE IsAscii(a.units) /\ IsAscii(b.units) /\ a.units = b.units

\* get_attribute("value") of the i-th element: the browser gives a unicode
ValueAttribute(b, i) == PyUnicode(b[i].value.units)

\* a faulty variant of the search: the identifier is never found
select_user_never(b, userid) == 0

\* __select_user, lines 157-167: the index of the first element whose value
\* equals userid, the one that is clicked; 0 when there is none
select_user(b, userid) ==
    IF \E i \in 1..Len(b) : PyEq(ValueAttribute(b, i), userid)
    THEN CHOOSE i \in 1..Len(b) :
             /\ PyEq(ValueAttribute(b, i), userid)
             /\ \A j \in 1..(i - 1) : ~PyEq(ValueAttribute(b, j), userid)
    ELSE 0

\* __wait_for_addressbook, lines 118-123
WaitSteps == << Step("wait", "span_loadingStatus", PyNone) >>

\* the click of line 164 on the element found
ClickSteps(found) ==
    IF found # 0 THEN << Step("click", "entryindex", PyNone) >> ELSE << >>

\* lines 179-186
OpenFormSteps(userid_exists) ==
    << Step("click", IF userid_exists THEN "Change" ELSE "Add User", PyNone),
       Step("switch_to_alert", "alert", PyNone) >>

\* the fields of lines 187-192 and what is typed into each; the loop of
\* lines 193-197 visits them in the order of the dict, which the code does
\* not fix, so the four fields are one step
FillSteps(userid, name, email) ==
    << Step("clear and send_keys", "form",
            [entryIndexIn |-> userid, entryNameIn |-> name,
             entryDisplayNameIn |-> name, mailAddressIn |-> email]) >>

\* a faulty variant of lines 199-201: the selection is made whatever the
\* label is
TagStepsAlways(tag_label) ==
    << Step("select_by_visible_text", "entryTagInfoIn", tag_label) >>

\* lines 199-201
TagSteps(tag_label) ==
    IF tag_label # PyNone
    THEN << Step("select_by_visible_text", "entryTagInfoIn", tag_label) >>
    ELSE << >>

\* lines 202-212: for a new entry, the click on the element named
\* "entryTagInfoIn" whose value is '2', when the form has one
FrequentSteps(userid_exists, present) ==
    IF ~userid_exists /\ present
    THEN << Step("click", "entryTagInfoIn 2", PyNone) >>
    ELSE << >>

\* lines 213-216
SubmitSteps ==
    << Step("click", "OK", PyNone), Step("wait", "additional", PyNone) >>

\* lines 226-232
DeleteSteps ==
    << Step("click", "Delete", PyNone), Step("wait", "Yes", PyNone),
       Step("click", "Yes", PyNone), Step("wait", "additional", PyNone) >>

\* the entry the page files when the form is submitted: what was typed,
\* and the tag selected in the form, which starts as oldTag
Submitted(userid, name, email, tag_label, oldTag) ==
    Entry(userid, name, email,
          IF tag_label # PyNone THEN tag_label ELSE oldTag)

InsertAt(b, pos, e) == SubSeq(b, 1, pos - 1) \o <<e>> \o SubSeq(b, pos, Len(b))

RemoveAt(b, i) == SubSeq(b, 1, i - 1) \o SubSeq(b, i + 1, Len(b))

\* write_user, lines 169-216, on the book b; present says whether the form
\* has the element of lines 206-212, pos where the page lists a new entry.
\* The result is the outcome, the interactions made and the book after.
write_user(b, userid, name, email, present, pos) ==
    LET padded == pad_userid(userid)
    IN  IF padded.outcome = "raise"
        THEN [ret |-> padded, calls |-> << >>, book |-> b]
        ELSE
        LET found == select_user(b, padded.value)
            userid_exists == found # 0
            label == get_tag_label(name)
            before == WaitSteps \o ClickSteps(found)
                          \o OpenFormSteps(userid_exists)
                          \o FillSteps(padded.value, name, email)
        IN  IF label.outcome = "raise"
            THEN [ret |-> label, calls |-> before, book |-> b]
            ELSE
            [ret |-> Return(PyNone),
             calls |-> before \o TagSteps(label.value)
                          \o FrequentSteps(userid_exists, present)
                          \o SubmitSteps,
             book |->
                 IF userid_exists
                 THEN [b EXCEPT ![found] =
                          Submitted(padded.value, name, email, label.value,
                                    b[found].tag)]
                 ELSE InsertAt(b, pos,
                          Submitted(padded.value, name, email, label.value,
                                    PyNone))]

\* remove_user, lines 218-232, on the book b
remove_user(b, userid) ==
    LET padded == pad_userid(userid)
    IN  IF padded.outcome = "raise"
        THEN [ret |-> padded, calls |-> << >>, book |-> b]
        ELSE
        LET found == select_user(b, padded.value)
        IN  IF found # 0
            THEN [ret |-> Return(PyNone),
                  calls |-> WaitSteps \o ClickSteps(found) \o DeleteSteps,
                  book |-> RemoveAt(b, found)]
            ELSE [ret |-> Return(PyNone),
                  calls |-> WaitSteps \o ClickSteps(found),
                  book |-> b]

\* the identifiers of the calls: both limits, both neighbours outside, a
\* long, and one that is no integer
CallUserids ==
    {PyInt("int", v) : v \in {0, 1, MaxUserid, MaxUserid + 1}}
        \cup {PyInt("long", 1), PyInt("float", 1)}

\* the names of the calls: Bo, 1o and Øo as str, Bo as unicode, and the
\* empty str
CallNames ==
    {PyStr(Utf8EncodeAll(<<66, 111>>)), PyStr(Utf8EncodeAll(<<49, 111>>)),
     PyStr(Utf8EncodeAll(<<216, 111>>)), PyUnicode(<<66, 111>>), PyStr(<<>>)}

\* a@b
CallEmails == {PyStr(<<97, 64, 98>>)}

\* the books the page starts with: none has two entries of one identifier
InitialBooks ==
    { << >>,
      << Entry(FormatD(MaxUserid), PyStr(<<90, 111>>),
               PyStr(<<97, 64, 98>>), Tags[10]) >> }

Init ==
    /\ op = "none"
    /\ arg = NoArg
    /\ ret = NotCalled
    /\ book \in InitialBooks
    /\ calls = << >>

\* an exception raised between opening the form and submitting it leaves
\* the form open; what the page does with a call made then is not decided
\* by this code, and the model makes none
FormOpen == op = "write_user" /\ ret.outcome = "raise" /\ calls # << >>

WriteUser(userid, name, email) ==
    /\ ~FormOpen
    /\ \E present \in BOOLEAN, pos \in 1..(Len(book) + 1) :
          LET r == write_user(book, userid, name, email, present, pos)
          IN  /\ op' = "write_user"
              /\ arg' = [userid |-> userid, name |-> name, email |-> email]
              /\ ret' = r.ret
              /\ calls' = r.calls
              /\ book' = r.book

RemoveUser(userid) ==
    /\ ~FormOpen
    /\ LET r == remove_user(book, userid)
       IN  /\ op' = "remove_user"
           /\ arg' = [NoArg EXCEPT !.userid = userid]
           /\ ret' = r.ret
           /\ calls' = r.calls
           /\ book' = r.book

Next ==
    \/ \E userid \in CallUserids, name \in CallNames, email \in CallEmails :
          WriteUser(userid, name, email)
    \/ \E userid \in CallUserids : RemoveUser(userid)

Spec == Init /\ [][Next]_vars

---------------------------------------------------------------------------
(* Properties of pad_userid, under SpecPad *)

RECURSIVE DecimalValue(_)
\* the number a sequence of ASCII digits reads as
DecimalValue(digits) ==
    IF Len(digits) = 0 THEN 0
    ELSE 10 * DecimalValue(SubSeq(digits, 1, Len(digits) - 1))
             + (digits[Len(digits)] - 48)

IsInteger(userid) == userid.type \in {"int", "long"}

InRange(userid) == 0 < userid.val /\ userid.val <= 50000

\* C1: for every integer id with 0 < id <= 50000, pad_userid returns a str
\* of exactly 5 characters, all decimal digits, whose decimal value is id.
C1_FiveDigits ==
    (op = "pad_userid" /\ IsInteger(arg.userid) /\ InRange(arg.userid))
        => /\ ret.outcome = "return"
           /\ ret.value.kind = "str"
           /\ Len(ret.value.units) = 5
           /\ \A i \in 1..Len(ret.value.units) :
                  ret.value.units[i] \in 48..57
           /\ DecimalValue(ret.value.units) = arg.userid.val

\* pad_userid(1) has returned "00001"
C1_Witness ==
    /\ op = "pad_userid"
    /\ arg.userid = PyInt("int", 1)
    /\ ret = Return(PyStr(<<48, 48, 48, 48, 49>>))

\* C2: for every integer id outside 1..50000, pad_userid raises
\* AssertionError and returns no string.
C2_OutOfRangeFails ==
    (op = "pad_userid" /\ IsInteger(arg.userid) /\ ~InRange(arg.userid))
        => ret = Raise("AssertionError")

\* pad_userid(50001) has raised
C2_Witness ==
    /\ op = "pad_userid"
    /\ arg.userid = PyInt("int", 50001)
    /\ ret.outcome = "raise"

---------------------------------------------------------------------------
(* Properties of get_tag_label, under SpecTag *)

\* the first character of a name that is not empty: the first code point
\* of a unicode, the character the first bytes of a str encode
FirstCharacter(name) ==
    IF name.kind = "unicode" \/ name.units[1] < 128 THEN name.units[1]
    ELSE (name.units[1] - 192) * 64 + (name.units[2] - 128)

Labelled == op = "get_tag_label" /\ Len(arg.name.units) > 0

\* the buckets that hold the letter c
BucketsOf(c) == {i \in 1..Len(Tags) : \E j \in 1..Len(Tags[i].units) :
                                          Tags[i].units[j] = c}

\* every letter A..Z is in exactly one bucket, once, and the buckets hold
\* nothing else
TagsPartitionAlphabet ==
    /\ \A c \in UpperLetters : Cardinality(BucketsOf(c)) = 1
    /\ \A i \in 1..Len(Tags) : \A j, k \in 1..Len(Tags[i].units) :
           /\ Tags[i].units[j] \in UpperLetters
           /\ (j # k => Tags[i].units[j] # Tags[i].units[k])

\* the character the specification looks up: upper case, the variants of
\* A as A, the variants of O (and U+0344) as O
Normalised(c) ==
    LET u == UnicodeUpper(c)
    IN  IF u \in {198, 197, 196} THEN 65
        ELSE IF u \in {216, 214, 836} THEN 79
        ELSE u

\* C3: the ten buckets partition A..Z, and for every name whose first
\* character is a letter, get_tag_label returns the one bucket that holds
\* the letter in upper case.
C3_LetterBucket ==
    /\ TagsPartitionAlphabet
    /\ (Labelled /\ FirstCharacter(arg.name) \in UpperLetters \cup LowerLetters)
           => \E i \in BucketsOf(UnicodeUpper(FirstCharacter(arg.name))) :
                  ret = Return(Tags[i])

\* C3 for the names that are str: it holds
C3_LetterBucketOfStr ==
    /\ TagsPartitionAlphabet
    /\ (/\ Labelled
        /\ arg.name.kind = "str"
        /\ FirstCharacter(arg.name) \in UpperLetters \cup LowerLetters)
           => \E i \in BucketsOf(UnicodeUpper(FirstCharacter(arg.name))) :
                  ret = Return(Tags[i])

\* C4: for every name whose first character is Æ, Å or Ä, get_tag_label
\* returns "AB".
C4_VariantsOfA ==
    (Labelled /\ FirstCharacter(arg.name) \in {198, 197, 196})
        => ret = Return(Tags[1])

\* C4 for the names that are str in UTF-8: it holds
C4_VariantsOfAOfStr ==
    (/\ Labelled
     /\ arg.name.kind = "str"
     /\ FirstCharacter(arg.name) \in {198, 197, 196})
        => ret = Return(Tags[1])

\* C5: for every name whose first character is Ø or Ö, get_tag_label
\* returns "OPQ", never "AB".
C5_VariantsOfO ==
    (Labelled /\ FirstCharacter(arg.name) \in {216, 214})
        => ret = Return(Tags[7])

\* C5 narrowed to the names that are str: it fails on them too
C5_VariantsOfOOfStr ==
    (/\ Labelled
     /\ arg.name.kind = "str"
     /\ FirstCharacter(arg.name) \in {216, 214})
        => ret = Return(Tags[7])

\* C6: for every name that is not empty, get_tag_label returns one of the
\* ten labels or None and never fails; it returns None when the first
\* character, in upper case and with the accents remapped, is in no bucket.
C6_Total ==
    Labelled
        => /\ ret.outcome = "return"
           /\ ret.value = PyNone \/ \E i \in 1..Len(Tags) : ret.value = Tags[i]
           /\ BucketsOf(Normalised(FirstCharacter(arg.name))) = {}
                  => ret.value = PyNone

\* the part of C6 that holds of the names that are str: a label or None
\* is returned
C6_TotalOfStr ==
    (Labelled /\ arg.name.kind = "str")
        => /\ ret.outcome = "return"
           /\ ret.value = PyNone \/ \E i \in 1..Len(Tags) : ret.value = Tags[i]

\* the other part of C6 narrowed to the names that are str: it fails
C6_NoBucketOfStr ==
    (/\ Labelled
     /\ arg.name.kind = "str"
     /\ BucketsOf(Normalised(FirstCharacter(arg.name))) = {})
        => ret = Return(PyNone)

\* C7: two names that are not empty, are passed as the same type and
\* whose first characters differ only in case get the same result.
C7_CaseInsensitive ==
    Labelled
        => \A n \in Names :
               (/\ Len(n.units) > 0
                /\ n.kind = arg.name.kind
                /\ FirstCharacter(n) # FirstCharacter(arg.name)
                /\ UnicodeUpper(FirstCharacter(n))
                       = UnicodeUpper(FirstCharacter(arg.name)))
                   => get_tag_label(n) = ret

\* C7 for the names that are str and start with a letter a..z or A..Z: it
\* holds
C7_CaseInsensitiveOfAscii ==
    (/\ Labelled
     /\ arg.name.kind = "str"
     /\ FirstCharacter(arg.name) \in UpperLetters \cup LowerLetters)
        => \A n \in Names :
               (/\ Len(n.units) > 0
                /\ n.kind = "str"
                /\ FirstCharacter(n) # FirstCharacter(arg.name)
                /\ UnicodeUpper(FirstCharacter(n))
                       = UnicodeUpper(FirstCharacter(arg.name)))
                   => get_tag_label(n) = ret

---------------------------------------------------------------------------
(* Properties of write_user and remove_user, under Spec *)

Did(do, on) == \E i \in 1..Len(calls) : calls[i].do = do /\ calls[i].on = on

DidNext(do, on) ==
    \E i \in 1..Len(calls') : calls'[i].do = do /\ calls'[i].on = on

\* C8: write_user and remove_user validate the identifier before any
\* interaction with the browser: a call with an integer identifier outside
\* 1..50000 raises without any interaction and leaves the book as it was.
C8_ValidatedFirst ==
    [][(/\ op' \in {"write_user", "remove_user"}
        /\ IsInteger(arg'.userid)
        /\ ~InRange(arg'.userid))
           => /\ ret' = Raise("AssertionError")
              /\ calls' = << >>
              /\ book' = book]_vars

\* write_user(0, ...) has raised on a book that holds an entry
C8_Witness ==
    /\ op = "write_user"
    /\ arg.userid = PyInt("int", 0)
    /\ ret = Raise("AssertionError")
    /\ calls = << >>
    /\ Len(book) > 0

Selections == {i \in 1..Len(calls) : calls[i].do = "select_by_visible_text"}

\* C9: in a write_user that completes, the tag is selected exactly when
\* get_tag_label(name) is a label, and then that label is; when it is None
\* no selection is made, the four fields are filled with the padded
\* identifier, the name, the name and the email, and OK is clicked.
C9_TagSelection ==
    (op = "write_user" /\ ret.outcome = "return")
        => LET label == get_tag_label(arg.name).value
               filled == [entryIndexIn |-> FormatD(arg.userid.val),
                          entryNameIn |-> arg.name,
                          entryDisplayNameIn |-> arg.name,
                          mailAddressIn |-> arg.email]
           IN  /\ label # PyNone
                      => /\ Cardinality(Selections) = 1
                         /\ \A i \in Selections :
                                /\ calls[i].on = "entryTagInfoIn"
                                /\ calls[i].with = label
               /\ label = PyNone => Selections = {}
               /\ \E i \in 1..Len(calls) :
                      calls[i].do = "clear and send_keys"
                          /\ calls[i].with = filled
               /\ Did("click", "OK")

\* a write_user whose name has no label has filled the form and clicked OK
C9_Witness ==
    /\ op = "write_user"
    /\ ret.outcome = "return"
    /\ get_tag_label(arg.name) = Return(PyNone)
    /\ Selections = {}
    /\ Did("clear and send_keys", "form")
    /\ Did("click", "OK")

\* the entries of the book b whose value is the identifier in padded form
EntriesOf(b, userid) ==
    {i \in 1..Len(b) : b[i].value.units = FormatD(userid.val).units}

OneEntryPerIdentifier ==
    \A i, j \in 1..Len(book) :
        i # j => book[i].value.units # book[j].value.units

\* C10: write_user clicks "Change" exactly when the book holds an entry of
\* the padded identifier and "Add User" otherwise, remove_user deletes only
\* when it holds one, and the book never holds two entries of one
\* identifier.
C10_OneEntryPerIdentifier ==
    /\ []OneEntryPerIdentifier
    /\ [][/\ (op' = "write_user" /\ IsInteger(arg'.userid) /\ InRange(arg'.userid))
                 => /\ DidNext("click", "Change")
                           <=> EntriesOf(book, arg'.userid) # {}
                    /\ DidNext("click", "Add User")
                           <=> EntriesOf(book, arg'.userid) = {}
          /\ (op' = "remove_user" /\ IsInteger(arg'.userid) /\ InRange(arg'.userid))
                 => /\ DidNext("click", "Delete")
                           <=> EntriesOf(book, arg'.userid) # {}
                    /\ EntriesOf(book, arg'.userid) = {} => book' = book
                    /\ EntriesOf(book', arg'.userid) = {}]_vars

\* a write_user has changed an entry of a book of two entries
C10_Witness ==
    /\ op = "write_user"
    /\ Did("click", "Change")
    /\ Len(book) = 2
    /\ OneEntryPerIdentifier

=============================================================================
